---- MODULE Spec2Model ----
(***************************************************************************)
(* Host side of the peer-to-peer quiz embedded in the page generated by    *)
(* src/generate.py (the JavaScript of generate_quiz_html).  The host page  *)
(* is one single-threaded event loop: every action below is one callback   *)
(* (a transport event, a message handler, a timer tick or a button click)  *)
(* run to completion.                                                      *)
(***************************************************************************)
EXTENDS Integers, Sequences, FiniteSets, TLC

\* ------------------------------------------------------------------ bounds
\* Number of player-originated events (connection open, connection close,
\* join message, answer message) the host processes in one session.
MaxEvents == 6
\* Largest of the consecutive response times 0..MaxProbe scored in ScoreSpec.
MaxProbe == 60
\* Largest number of questions of a generated quiz in HalftimeSpec.
MaxQuestions == 5
MaxClientEvents == 5    \* transport events delivered to the player page
MaxPresses == 2         \* option buttons a player presses in one session
MaxChannels == 2        \* channels one player page opens to the host
SessionQuestions == 2   \* questions of the quiz in SessionSpec
MaxFinishEvents == 4    \* player events in FinishSpec

\* ------------------------------------------------------- program constants
JOIN_TIMEOUT == 10000   \* delay of joinRoom's timeout
RECONNECT_DELAY == 2000 \* delay of both timers of attemptReconnect
maxAttempts == 5
TIMER_DURATION == 30
BASE_POINTS == 500
SPEED_BONUS == 200
NullTime == -1

\* Display names players type into the join form.
Names == {"Ann", "Bob"}

\* The question list embedded at build time; only what the host logic reads.
QUESTIONS ==
    << [question |-> "Q1", options |-> <<"A", "B">>, correct |-> 1],
       [question |-> "Q2", options |-> <<"A", "B">>, correct |-> 0],
       [question |-> "Q3", options |-> <<"A", "B">>, correct |-> 1] >>

\* The text recorded as picked when a player has no vote (the dash of
\* hostReveal).
Unanswered == "none"

\* Values of data.option after parseInt: the option buttons' indexes, and -1,
\* a value that is no option index of the question.
AnswerInputs == {-1, 0, 1}

\* Object.entries(votes) visits integer-like keys in ascending order, then
\* the other keys.
VoteKeyOrder == <<0, 1, -1>>

\* Budget in milliseconds: TIMER_DURATION * 1000
Budget == TIMER_DURATION * 1000

\* Sampled values of Date.now() - questionStartTime at which events happen.
ElapsedSamples == <<0, Budget>>

VARIABLES
    quiz,            \* the QUESTIONS array the page was generated with
    nextConn,        \* number of connections opened so far (ids 1..nextConn)
    connections,     \* host: open DataConnections
    players,         \* host: connId -> player record
    disconnectedPlayers, \* host: name -> player record
    currentQ,        \* 0-based question cursor
    votes,           \* option key -> sequence of player names
    answerOrder,     \* sequence of connIds of correct answers
    quizStarted,
    answersLocked,
    lastEarned,      \* connId -> points earned this round
    halftimeShown,
    elapsed,         \* Date.now() - questionStartTime
    timerRunning,    \* timerRAF holds a scheduled tick
    screen,          \* the active host screen
    btnReveal,       \* onclick of btnReveal
    scoreboard,      \* scoresArr broadcast by showFinalScoreboard
    sent,            \* messages the last callback handed to conn.send, in order
    events           \* player-originated events processed so far

hostVars == << quiz, nextConn, connections, players, disconnectedPlayers, currentQ, votes,
               answerOrder, quizStarted, answersLocked, lastEarned, halftimeShown,
               elapsed, timerRunning, screen, btnReveal, scoreboard, sent, events >>

\* The page of one player, from the join screen on (joinRoom, attemptReconnect
\* and the transport events they listen to).
VARIABLES
    peerState,       \* the player's Peer: "none", "connecting", "open",
                     \* "disconnected" or "reconnecting"
    clientConns,     \* the DataConnections peer.connect has returned
    hostConn,        \* index in clientConns of hostConn, 0 for null
    reconnects,      \* the attempts counter of every attemptReconnect call
    timers,          \* pending setTimeout callbacks
    joinError,       \* text of the joinError element
    playerScreen,    \* the active player screen
    clientEvents     \* transport events the player page has handled so far

\* The same page once its channel to the host is open.
VARIABLES
    linked,          \* hostConn is open
    myConn,          \* the host's connection id of hostConn, 0 before the first
    outbox,          \* page messages in flight to the host, oldest first
    myAnswer,
    playerLocked,    \* the page's own answersLocked
    playerTimerStart, \* the page's questionStartTime on the host's clock
    myCorrectCount,
    presses          \* option buttons pressed so far

playVars == << linked, myConn, outbox, myAnswer, playerLocked,
               playerTimerStart, myCorrectCount, presses >>

clientVars == << peerState, clientConns, hostConn, reconnects, timers, joinError,
                 playerScreen, clientEvents, playVars >>

vars == << hostVars, clientVars >>

\* The player page showing the join form.
PlayerPageInit ==
    /\ peerState = "none"
    /\ clientConns = << >>
    /\ hostConn = 0
    /\ reconnects = << >>
    /\ timers = {}
    /\ joinError = ""
    /\ playerScreen = "screenJoin"
    /\ clientEvents = 0
    /\ linked = FALSE
    /\ myConn = 0
    /\ outbox = << >>
    /\ myAnswer = -1
    /\ playerLocked = FALSE
    /\ playerTimerStart = NullTime
    /\ myCorrectCount = 0
    /\ presses = 0

\* ----------------------------------------------------------------- helpers
Put(f, k, v) == [x \in DOMAIN f \cup {k} |-> IF x = k THEN v ELSE f[x]]
Delete(f, k) == [x \in DOMAIN f \ {k} |-> f[x]]

Includes(seq, x) == \E i \in 1..Len(seq) : seq[i] = x

IndexOf(seq, x) ==
    IF Includes(seq, x)
    THEN CHOOSE i \in 1..Len(seq) : seq[i] = x /\ \A j \in 1..(i-1) : seq[j] # x
    ELSE 0

\* arr.splice(arr.indexOf(x), 1) when x is present
RemoveFirst(seq, x) ==
    LET i == IndexOf(seq, x)
    IN  IF i = 0 THEN seq
        ELSE [j \in 1..(Len(seq) - 1) |-> IF j < i THEN seq[j] ELSE seq[j + 1]]

\* arr.filter(id => id !== x)
FilterOut(seq, x) == SelectSeq(seq, LAMBDA id : id # x)

EmptyVotes == [k \in AnswerInputs |-> << >>]
EmptyMap == [x \in {} |-> 0]

NewPlayer(name) ==
    [name |-> name, score |-> 0, answered |-> FALSE, answerTime |-> NullTime,
     correct_count |-> 0, answers |-> << >>]

\* QUESTIONS.length
NumQuestions == Len(quiz)

\* Variant: the checkpoint comes after the larger half.
HalftimeAfterCeil == (NumQuestions + 1) \div 2

\* HALFTIME_AFTER = Math.floor(QUESTIONS.length / 2)
HALFTIME_AFTER == NumQuestions \div 2

CurrentQuestion == quiz[currentQ + 1]

\* The connections array in its order: connections are pushed as they open
\* and filter keeps the order.
RECURSIVE Ascending(_)
Ascending(S) ==
    IF S = {} THEN << >>
    ELSE LET m == CHOOSE x \in S : \A y \in S : x <= y
         IN  <<m>> \o Ascending(S \ {m})

\* connections.forEach(c => c.send(...))
\* msgs maps every open connection to the message built for it.
Broadcast(msgs) ==
    LET order == Ascending(connections)
    IN  [i \in DOMAIN order |-> msgs[order[i]]]

JoinedMsg(c, name) == [to |-> c, type |-> "joined", name |-> name]
QuestionMsg(c, q) == [to |-> c, type |-> "question", index |-> q]

Init ==
    /\ quiz = QUESTIONS
    /\ nextConn = 0
    /\ connections = {}
    /\ players = EmptyMap
    /\ disconnectedPlayers = EmptyMap
    /\ currentQ = 0
    /\ votes = EmptyVotes
    /\ answerOrder = << >>
    /\ quizStarted = FALSE
    /\ answersLocked = FALSE
    /\ lastEarned = EmptyMap
    /\ halftimeShown = FALSE
    /\ elapsed = Budget
    /\ timerRunning = FALSE
    /\ screen = "screenHostLobby"
    /\ btnReveal = "hostReveal"
    /\ scoreboard = << >>
    /\ sent = << >>
    /\ events = 0
    /\ PlayerPageInit

\* ---------------------------------------------------- transport callbacks
\* peer.on('connection') / conn.on('open')
ConnOpen ==
    /\ events < MaxEvents
    /\ events' = events + 1
    /\ nextConn' = nextConn + 1
    /\ connections' = connections \cup {nextConn + 1}
    /\ sent' = << >>
    /\ UNCHANGED << clientVars, quiz, players, disconnectedPlayers, currentQ, votes, answerOrder,
                    quizStarted, answersLocked, lastEarned, halftimeShown,
                    elapsed, timerRunning, screen, btnReveal, scoreboard >>

\* Variant: the record of a closing connection is dropped, not preserved.
ConnCloseDropping(c) ==
    /\ c \in connections
    /\ events < MaxEvents
    /\ events' = events + 1
    /\ connections' = connections \ {c}
    /\ players' = Delete(players, c)
    /\ sent' = << >>
    /\ UNCHANGED << clientVars, quiz, nextConn, disconnectedPlayers, currentQ, votes, answerOrder,
                    quizStarted, answersLocked, lastEarned, halftimeShown, elapsed,
                    timerRunning, screen, btnReveal, scoreboard >>

\* conn.on('close')
ConnClose(c) ==
    /\ c \in connections
    /\ events < MaxEvents
    /\ events' = events + 1
    /\ connections' = connections \ {c}
    /\ IF c \in DOMAIN players
       THEN /\ disconnectedPlayers' = Put(disconnectedPlayers, players[c].name, players[c])
            /\ players' = Delete(players, c)
       ELSE UNCHANGED << players, disconnectedPlayers >>
    /\ sent' = << >>
    /\ UNCHANGED << clientVars, quiz, nextConn, currentQ, votes, answerOrder, quizStarted,
                    answersLocked, lastEarned, halftimeShown, elapsed,
                    timerRunning, screen, btnReveal, scoreboard >>

\* Variant: a join message always registers a new record.
JoinRecordFresh(name) == NewPlayer(name)

\* The record a join message registers: the preserved one when the name is
\* in disconnectedPlayers, a new one otherwise.
JoinRecord(name) ==
    IF name \in DOMAIN disconnectedPlayers
    THEN disconnectedPlayers[name]
    ELSE NewPlayer(name)

\* Variant: a join is answered with joined only.
JoinRepliesJoinedOnly(c, name) == <<JoinedMsg(c, name)>>

\* conn.send of the join branch: joined, then the current question if the
\* quiz is in progress
JoinReplies(c, name) ==
    <<JoinedMsg(c, name)>> \o
        (IF quizStarted /\ currentQ < NumQuestions
         THEN <<QuestionMsg(c, currentQ)>> ELSE << >>)

\* handleHostMessage, data.type === 'join': what the host page does
JoinHandler(c, name) ==
    /\ c \in connections
    /\ events < MaxEvents
    /\ events' = events + 1
    /\ players' = Put(players, c, JoinRecord(name))
    /\ disconnectedPlayers' = Delete(disconnectedPlayers, name)
    /\ sent' = JoinReplies(c, name)
    /\ UNCHANGED << quiz, nextConn, connections, currentQ, votes, answerOrder,
                    quizStarted, answersLocked, lastEarned, halftimeShown,
                    elapsed, timerRunning, screen, btnReveal, scoreboard >>

\* A join message of some player arriving at the host.
Join(c, name) == JoinHandler(c, name) /\ UNCHANGED clientVars

\* Remove previous vote if changing answer: one occurrence per bucket
RemovePreviousVote(vts, name) == [k \in DOMAIN vts |-> RemoveFirst(vts[k], name)]

\* Variant: the lock is not consulted.
AnswerDroppedUnlocked(c) == c \notin DOMAIN players

\* if (answersLocked) return; ... if (!p) return;
AnswerDropped(c) == answersLocked \/ c \notin DOMAIN players

\* Variant: an accepted answer also locks the question.
AnswerLocking(c, optIdx) ==
    /\ c \in connections
    /\ events < MaxEvents
    /\ events' = events + 1
    /\ ~AnswerDropped(c)
    /\ players' = [players EXCEPT ![c].answered = TRUE, ![c].answerTime = elapsed]
    /\ votes' = [votes EXCEPT ![optIdx] = Append(@, players[c].name)]
    /\ answersLocked' = TRUE
    /\ sent' = << >>
    /\ UNCHANGED << clientVars, quiz, nextConn, connections, disconnectedPlayers, currentQ,
                    answerOrder, quizStarted, lastEarned, halftimeShown,
                    elapsed, timerRunning, screen, btnReveal, scoreboard >>

\* handleHostMessage, data.type === 'answer': what the host page does
AnswerHandler(c, optIdx) ==
    /\ c \in connections
    /\ events < MaxEvents
    /\ events' = events + 1
    /\ IF AnswerDropped(c)
       THEN UNCHANGED << players, votes, answerOrder >>
       ELSE LET p == players[c]
                cleared == IF p.answered THEN RemovePreviousVote(votes, p.name) ELSE votes
                order == IF p.answered THEN FilterOut(answerOrder, c) ELSE answerOrder
            IN  /\ players' = [players EXCEPT ![c].answered = TRUE,
                                              ![c].answerTime = elapsed]
                /\ votes' = [cleared EXCEPT ![optIdx] = Append(@, p.name)]
                /\ answerOrder' = IF optIdx = CurrentQuestion.correct
                                  THEN Append(order, c) ELSE order
    /\ sent' = << >>
    /\ UNCHANGED << quiz, nextConn, connections, disconnectedPlayers, currentQ,
                    quizStarted, answersLocked, lastEarned, halftimeShown,
                    elapsed, timerRunning, screen, btnReveal, scoreboard >>

\* An answer message of some player arriving at the host.
Answer(c, optIdx) == AnswerHandler(c, optIdx) /\ UNCHANGED clientVars

\* ------------------------------------------------------------------ timer
NextSample ==
    LET later == {i \in 1..Len(ElapsedSamples) : ElapsedSamples[i] > elapsed}
    IN  ElapsedSamples[CHOOSE i \in later : \A j \in later : i <= j]

\* Wall-clock time passing while the question accepts answers.
Tick ==
    /\ ~answersLocked
    /\ \E i \in 1..Len(ElapsedSamples) : ElapsedSamples[i] > elapsed
    /\ elapsed' = NextSample
    /\ sent' = << >>
    /\ UNCHANGED << clientVars, quiz, nextConn, connections, players, disconnectedPlayers, currentQ,
                    votes, answerOrder, quizStarted, answersLocked, lastEarned,
                    halftimeShown, timerRunning, screen, btnReveal, scoreboard,
                    events >>

\* startTimer's tick() once remaining = max(0, duration - elapsed) is 0,
\* with the onExpire callback hostSendQuestion passes
TimerExpire ==
    /\ timerRunning
    /\ elapsed >= Budget
    /\ timerRunning' = FALSE
    /\ answersLocked' = TRUE
    /\ sent' = << >>
    /\ UNCHANGED << clientVars, quiz, nextConn, connections, players, disconnectedPlayers, currentQ,
                    votes, answerOrder, quizStarted, lastEarned, halftimeShown,
                    elapsed, screen, btnReveal, scoreboard, events >>

\* ------------------------------------------------------------ host buttons
ResetAnswered(ps) ==
    [c \in DOMAIN ps |-> [ps[c] EXCEPT !.answered = FALSE, !.answerTime = NullTime]]

\* hostSendQuestion, for the cursor value q (startTimer included)
HostSendQuestion(q) ==
    /\ currentQ' = q
    /\ votes' = EmptyVotes
    /\ answerOrder' = << >>
    /\ lastEarned' = EmptyMap
    /\ answersLocked' = FALSE
    /\ players' = ResetAnswered(players)
    /\ btnReveal' = "hostReveal"
    /\ screen' = "screenHostQ"
    /\ elapsed' = 0
    /\ timerRunning' = TRUE
    /\ sent' = Broadcast([c \in connections |-> QuestionMsg(c, q)])

HostStartQuiz ==
    /\ screen = "screenHostLobby"
    /\ quizStarted' = TRUE
    /\ HostSendQuestion(0)
    /\ UNCHANGED << clientVars, quiz, nextConn, connections, disconnectedPlayers, halftimeShown,
                    scoreboard, events >>

\* The option a player is scored on: the last bucket, in Object.entries
\* order, whose names include the player's name; -1 when there is none.
PlayerVote(name) ==
    LET hits == {i \in 1..Len(VoteKeyOrder) : Includes(votes[VoteKeyOrder[i]], name)}
    IN  IF hits = {} THEN -1
        ELSE VoteKeyOrder[CHOOSE i \in hits : \A j \in hits : j <= i]

\* Math.round(num / den) for num, den > 0
RoundDiv(num, den) == (2 * num + den) \div (2 * den)

\* elapsed = p.answerTime || TIMER_DURATION * 1000
ScoredElapsed(answerTime) ==
    IF answerTime = NullTime \/ answerTime = 0 THEN Budget ELSE answerTime

\* Math.round(500 + 500 * (1 - Math.min(elapsed / budget, 1)))
TimeScore(answerTime) ==
    LET e == ScoredElapsed(answerTime)
        capped == IF e > Budget THEN Budget ELSE e
    IN  RoundDiv(BASE_POINTS * Budget + BASE_POINTS * (Budget - capped), Budget)

\* Variant: any position of answerOrder counts.
IsAnyCorrect(c) == Includes(answerOrder, c)

\* answerOrder.length > 0 && answerOrder[0] === connId
IsFirstCorrect(c) == Len(answerOrder) > 0 /\ answerOrder[1] = c

WasCorrect(p) == PlayerVote(p.name) = CurrentQuestion.correct

\* Variant: points are earned whatever the vote.
EarnedAlways(c, p) ==
    TimeScore(p.answerTime) + (IF IsFirstCorrect(c) THEN SPEED_BONUS ELSE 0)

Earned(c, p) ==
    IF WasCorrect(p)
    THEN TimeScore(p.answerTime) + (IF IsFirstCorrect(c) THEN SPEED_BONUS ELSE 0)
    ELSE 0

AnswerRecord(p) ==
    LET playerVote == PlayerVote(p.name)
    IN  [question |-> CurrentQuestion.question,
         picked |-> IF playerVote >= 0 THEN CurrentQuestion.options[playerVote + 1]
                    ELSE Unanswered,
         correct |-> CurrentQuestion.options[CurrentQuestion.correct + 1],
         right |-> WasCorrect(p)]

\* Variant: every reveal counts as a correct answer.
ScoredCountingAll(c, p) ==
    [p EXCEPT !.score = @ + Earned(c, p),
              !.correct_count = @ + 1,
              !.answers = Append(@, AnswerRecord(p))]

Scored(c, p) ==
    [p EXCEPT !.score = @ + Earned(c, p),
              !.correct_count = IF WasCorrect(p) THEN @ + 1 ELSE @,
              !.answers = Append(@, AnswerRecord(p))]

\* The reveal message for a connection: earned = lastEarned[connId] || 0
RevealMsg(c) ==
    [to |-> c, type |-> "reveal", correct |-> CurrentQuestion.correct,
     earned |-> IF c \in DOMAIN players THEN Earned(c, players[c]) ELSE 0]

HostReveal ==
    /\ screen = "screenHostQ"
    /\ btnReveal = "hostReveal"
    /\ timerRunning' = FALSE
    /\ answersLocked' = TRUE
    /\ lastEarned' = [c \in DOMAIN players |-> Earned(c, players[c])]
    /\ players' = [c \in DOMAIN players |-> Scored(c, players[c])]
    /\ btnReveal' = "showRevealScreen"
    /\ sent' = Broadcast([c \in connections |-> RevealMsg(c)])
    /\ UNCHANGED << clientVars, quiz, nextConn, connections, disconnectedPlayers, currentQ, votes,
                    answerOrder, quizStarted, halftimeShown, elapsed, screen,
                    scoreboard, events >>

ShowRevealScreen ==
    /\ screen = "screenHostQ"
    /\ btnReveal = "showRevealScreen"
    /\ screen' = "screenHostReveal"
    /\ sent' = << >>
    /\ UNCHANGED << clientVars, quiz, nextConn, connections, players, disconnectedPlayers, currentQ,
                    votes, answerOrder, quizStarted, answersLocked, lastEarned,
                    halftimeShown, elapsed, timerRunning, btnReveal, scoreboard,
                    events >>

ScoreEntry(p) ==
    [name |-> p.name, score |-> p.score, correct |-> p.correct_count,
     answers |-> p.answers]

\* Object.values(players).sort((a, b) => b.score - a.score): any order of the
\* live records by descending score.
SortedOrders ==
    {o \in [1..Cardinality(DOMAIN players) -> DOMAIN players] :
        /\ \A i, j \in DOMAIN o : i # j => o[i] # o[j]
        /\ \A i, j \in DOMAIN o : i < j => players[o[i]].score >= players[o[j]].score}

ShowFinalScoreboard ==
    /\ \E o \in SortedOrders :
          scoreboard' = [i \in DOMAIN o |-> ScoreEntry(players[o[i]])]
    /\ screen' = "screenScoreboard"
    /\ sent' = Broadcast([c \in connections |-> [to |-> c, type |-> "scoreboard"]])
    /\ UNCHANGED << players, votes, answerOrder, lastEarned, answersLocked,
                    btnReveal, elapsed, timerRunning, halftimeShown >>

ShowHalftime ==
    /\ screen' = "screenHalftime"
    /\ sent' = Broadcast([c \in connections |-> [to |-> c, type |-> "halftime"]])
    /\ UNCHANGED << players, votes, answerOrder, lastEarned, answersLocked,
                    btnReveal, elapsed, timerRunning, scoreboard >>

\* Variant: the cursor does not advance, the same question is sent again.
HostNextQuestionAgain ==
    /\ screen = "screenHostReveal"
    /\ HostSendQuestion(currentQ)
    /\ UNCHANGED << clientVars, quiz, nextConn, connections, disconnectedPlayers,
                    quizStarted, halftimeShown, scoreboard, events >>

HostNextQuestion ==
    /\ screen = "screenHostReveal"
    /\ IF currentQ + 1 >= NumQuestions
       THEN currentQ' = currentQ + 1 /\ ShowFinalScoreboard
       ELSE IF currentQ + 1 = HALFTIME_AFTER /\ ~halftimeShown
       THEN currentQ' = currentQ + 1 /\ halftimeShown' = TRUE /\ ShowHalftime
       ELSE HostSendQuestion(currentQ + 1) /\ UNCHANGED << halftimeShown, scoreboard >>
    /\ UNCHANGED << clientVars, quiz, nextConn, connections, disconnectedPlayers, quizStarted, events >>

HalftimeContinue ==
    /\ screen = "screenHalftime"
    /\ HostSendQuestion(currentQ)
    /\ UNCHANGED << clientVars, quiz, nextConn, connections, disconnectedPlayers, quizStarted,
                    halftimeShown, scoreboard, events >>

\* Names a join message can carry.  The names are interchangeable, so the
\* first player ever to join is taken to be Ann.
JoinNames ==
    IF players = EmptyMap /\ disconnectedPlayers = EmptyMap THEN {"Ann"} ELSE Names

Next ==
    \/ ConnOpen
    \/ \E c \in connections : ConnClose(c)
    \/ \E c \in connections, name \in JoinNames : Join(c, name)
    \/ \E c \in connections, optIdx \in AnswerInputs : Answer(c, optIdx)
    \/ Tick
    \/ TimerExpire
    \/ HostStartQuiz
    \/ HostReveal
    \/ ShowRevealScreen
    \/ HostNextQuestion
    \/ HalftimeContinue

Spec == Init /\ [][Next]_vars

\* ------------------------------------------------------- scoring in detail
\* Response times in milliseconds at which the scored answer was registered:
\* every value up to MaxProbe, and values around the ends of the decay.
ProbeTimes ==
    (0..MaxProbe) \cup {2000, 29000, 29969, 29970, 29971, Budget, Budget + 1, 45000}

\* The first question is open; Ann, on connection 1, has a registered vote
\* for the correct option, given at response time t.  When Ann is not first,
\* Bob, on connection 2, voted for the correct option before her.
ScoreInit ==
    \E t \in ProbeTimes, first \in BOOLEAN :
        LET ann == [NewPlayer("Ann") EXCEPT !.answered = TRUE, !.answerTime = t]
            bob == [NewPlayer("Bob") EXCEPT !.answered = TRUE, !.answerTime = t \div 2]
        IN  /\ quiz = QUESTIONS
            /\ nextConn = IF first THEN 1 ELSE 2
            /\ connections = 1..nextConn
            /\ players = IF first THEN 1 :> ann ELSE (1 :> ann) @@ (2 :> bob)
            /\ disconnectedPlayers = EmptyMap
            /\ currentQ = 0
            /\ votes = [EmptyVotes EXCEPT ![QUESTIONS[1].correct] =
                            IF first THEN <<"Ann">> ELSE <<"Bob", "Ann">>]
            /\ answerOrder = IF first THEN <<1>> ELSE <<2, 1>>
            /\ quizStarted = TRUE
            /\ answersLocked = FALSE
            /\ lastEarned = EmptyMap
            /\ halftimeShown = FALSE
            /\ elapsed = t
            /\ timerRunning = TRUE
            /\ screen = "screenHostQ"
            /\ btnReveal = "hostReveal"
            /\ scoreboard = << >>
            /\ sent = << >>
            /\ events = 3 * nextConn
            /\ PlayerPageInit

ScoreNext == HostReveal

ScoreSpec == ScoreInit /\ [][ScoreNext]_vars

\* ------------------------------------------------- quizzes of any length
\* A generated quiz of n questions.
QuizOf(n) ==
    [i \in 1..n |-> [question |-> ToString(i), options |-> <<"A", "B">>,
                     correct |-> i % 2]]

\* The host page of a quiz of 1..MaxQuestions questions, nobody connected.
HalftimeInit ==
    /\ \E n \in 1..MaxQuestions : quiz = QuizOf(n)
    /\ nextConn = 0
    /\ connections = {}
    /\ players = EmptyMap
    /\ disconnectedPlayers = EmptyMap
    /\ currentQ = 0
    /\ votes = EmptyVotes
    /\ answerOrder = << >>
    /\ quizStarted = FALSE
    /\ answersLocked = FALSE
    /\ lastEarned = EmptyMap
    /\ halftimeShown = FALSE
    /\ elapsed = Budget
    /\ timerRunning = FALSE
    /\ screen = "screenHostLobby"
    /\ btnReveal = "hostReveal"
    /\ scoreboard = << >>
    /\ sent = << >>
    /\ events = 0
    /\ PlayerPageInit

\* The host's buttons and timer.
HalftimeNext ==
    \/ Tick
    \/ TimerExpire
    \/ HostStartQuiz
    \/ HostReveal
    \/ ShowRevealScreen
    \/ HostNextQuestion
    \/ HalftimeContinue

HalftimeSpec == HalftimeInit /\ [][HalftimeNext]_vars

\* ------------------------------------------------------------ player page
\* Texts of the joinError element, by the word the timeout callback looks for.
TextConnecting == "Forbinder..."
TextFinding == "Forbundet til server, finder vaert..."
TextConnFailed == "Forbindelse fejlede"
TextPeerError == "Forbindelsesfejl"
TextTimeout == "Timeout. Tjek koden og proev igen."

\* errEl.textContent.includes('Forbinder') || errEl.textContent.includes('finder')
StillConnecting(text) == text \in {TextConnecting, TextFinding}

\* A DataConnection returned by peer.connect: origin 0 for joinRoom, else the
\* number of the attemptReconnect call whose timer made it.
NewConn(origin) ==
    [origin |-> origin, state |-> "connecting", errored |-> FALSE,
     joinSent |-> FALSE, onData |-> FALSE, onClose |-> (origin = 0)]

ConnectTimer(loop, n) ==
    [kind |-> "connect", loop |-> loop, id |-> n, delay |-> RECONNECT_DELAY]
RetryTimer(loop, i) ==
    [kind |-> "retry", loop |-> loop, id |-> i, delay |-> RECONNECT_DELAY]
JoinTimer == [kind |-> "joinTimeout", loop |-> 0, id |-> 0, delay |-> JOIN_TIMEOUT]

\* hostConn && hostConn.open
HostConnOpen == hostConn # 0 /\ clientConns[hostConn].state = "open"

\* tryConnect of attemptReconnect call `loop`, run on the counters recs, the
\* pending timers tms and the peer state ps.
TryConnectOneMore(loop, recs, tms, ps) ==
    IF recs[loop] > maxAttempts
    THEN [recs |-> recs, tms |-> tms, ps |-> ps]
    ELSE [recs |-> [recs EXCEPT ![loop] = @ + 1],
          tms |-> tms \cup {ConnectTimer(loop, recs[loop] + 1)},
          ps |-> IF ps = "disconnected" THEN "reconnecting" ELSE ps]

TryConnect(loop, recs, tms, ps) ==
    IF recs[loop] >= maxAttempts
    THEN [recs |-> recs, tms |-> tms, ps |-> ps]
    ELSE [recs |-> [recs EXCEPT ![loop] = @ + 1],
          tms |-> tms \cup {ConnectTimer(loop, recs[loop] + 1)},
          ps |-> IF ps = "disconnected" THEN "reconnecting" ELSE ps]

\* The join button, with a valid code and name.
JoinRoom ==
    /\ playerScreen = "screenJoin"
    /\ peerState = "none"
    /\ joinError' = TextConnecting
    /\ peerState' = "connecting"
    /\ timers' = timers \cup {JoinTimer}
    /\ UNCHANGED << hostVars, playVars, clientConns, hostConn, reconnects, playerScreen,
                    clientEvents >>

\* peer 'open': the signaling server accepted the peer (again after reconnect).
PeerOpened ==
    /\ clientEvents < MaxClientEvents
    /\ peerState \in {"connecting", "reconnecting"}
    /\ clientEvents' = clientEvents + 1
    /\ peerState' = "open"
    /\ joinError' = TextFinding
    /\ clientConns' = Append(clientConns, NewConn(0))
    /\ hostConn' = Len(clientConns) + 1
    /\ UNCHANGED << hostVars, playVars, reconnects, timers, playerScreen >>

\* peer 'disconnected': only logged.
PeerDisconnected ==
    /\ clientEvents < MaxClientEvents
    /\ peerState = "open"
    /\ clientEvents' = clientEvents + 1
    /\ peerState' = "disconnected"
    /\ UNCHANGED << hostVars, playVars, clientConns, hostConn, reconnects, timers, joinError,
                    playerScreen >>

\* peer 'error'.
PeerErrored ==
    /\ clientEvents < MaxClientEvents
    /\ peerState # "none"
    /\ clientEvents' = clientEvents + 1
    /\ joinError' = TextPeerError
    /\ UNCHANGED << hostVars, playVars, peerState, clientConns, hostConn, reconnects, timers,
                    playerScreen >>

\* 'open' of connection i. Both handlers use the global hostConn.
ConnOpened(i) ==
    /\ clientEvents < MaxClientEvents
    /\ clientConns[i].state = "connecting"
    /\ clientEvents' = clientEvents + 1
    /\ LET opened == [clientConns EXCEPT ![i].state = "open"]
           target == opened[hostConn]
       IN  clientConns' =
               [opened EXCEPT ![hostConn] =
                   [target EXCEPT !.joinSent = @ \/ target.state = "open",
                                  !.onData = TRUE,
                                  !.onClose = @ \/ clientConns[i].origin # 0]]
    /\ joinError' = IF clientConns[i].origin = 0 THEN "" ELSE joinError
    /\ UNCHANGED << hostVars, playVars, peerState, hostConn, reconnects, timers, playerScreen >>

\* 'error' of connection i.
ConnErrored(i) ==
    /\ clientEvents < MaxClientEvents
    /\ clientConns[i].state # "closed"
    /\ ~clientConns[i].errored
    /\ clientEvents' = clientEvents + 1
    /\ clientConns' = [clientConns EXCEPT ![i].errored = TRUE]
    /\ IF clientConns[i].origin = 0
       THEN joinError' = TextConnFailed /\ timers' = timers
       ELSE joinError' = joinError
            /\ timers' = timers \cup {RetryTimer(clientConns[i].origin, i)}
    /\ UNCHANGED << hostVars, playVars, peerState, hostConn, reconnects, playerScreen >>

\* 'close' of connection i: attemptReconnect, where a handler is registered.
ConnClosed(i) ==
    /\ clientEvents < MaxClientEvents
    /\ clientConns[i].state # "closed"
    /\ clientEvents' = clientEvents + 1
    /\ clientConns' = [clientConns EXCEPT ![i].state = "closed"]
    /\ IF clientConns[i].onClose
       THEN LET loop == Len(reconnects) + 1
                after == TryConnect(loop, Append(reconnects, 0), timers, peerState)
            IN  /\ reconnects' = after.recs
                /\ timers' = after.tms
                /\ peerState' = after.ps
       ELSE UNCHANGED << reconnects, timers, peerState >>
    /\ UNCHANGED << hostVars, playVars, hostConn, joinError, playerScreen >>

\* handlePlayerMessage, 'joined': the host's reply to a join sent on i.
JoinedReceived(i) ==
    /\ clientEvents < MaxClientEvents
    /\ clientConns[i].state = "open"
    /\ clientConns[i].joinSent
    /\ clientConns[i].onData
    /\ clientEvents' = clientEvents + 1
    /\ playerScreen' = "screenPlayerWait"
    /\ UNCHANGED << hostVars, playVars, peerState, clientConns, hostConn, reconnects, timers,
                    joinError >>

\* The callback joinRoom scheduled 10 seconds ahead.
JoinTimeout ==
    /\ JoinTimer \in timers
    /\ timers' = timers \ {JoinTimer}
    /\ joinError' = IF ~HostConnOpen /\ StillConnecting(joinError)
                    THEN TextTimeout
                    ELSE joinError
    /\ UNCHANGED << hostVars, playVars, peerState, clientConns, hostConn, reconnects,
                    playerScreen, clientEvents >>

\* The callback tryConnect scheduled: try again, or connect to the host.
ConnectTimerFires(t) ==
    /\ t \in timers
    /\ t.kind = "connect"
    /\ IF peerState # "open"
       THEN LET after == TryConnect(t.loop, reconnects, timers \ {t}, peerState)
            IN  /\ reconnects' = after.recs
                /\ timers' = after.tms
                /\ peerState' = after.ps
                /\ UNCHANGED << clientConns, hostConn >>
       ELSE /\ clientConns' = Append(clientConns, NewConn(t.loop))
            /\ hostConn' = Len(clientConns) + 1
            /\ timers' = timers \ {t}
            /\ UNCHANGED << reconnects, peerState >>
    /\ UNCHANGED << hostVars, playVars, joinError, playerScreen, clientEvents >>

\* The callback the 'error' handler of a reconnect connection scheduled.
RetryTimerFires(t) ==
    /\ t \in timers
    /\ t.kind = "retry"
    /\ LET after == TryConnect(t.loop, reconnects, timers \ {t}, peerState)
       IN  /\ reconnects' = after.recs
           /\ timers' = after.tms
           /\ peerState' = after.ps
    /\ UNCHANGED << hostVars, playVars, clientConns, hostConn, joinError, playerScreen,
                    clientEvents >>

TimerFires ==
    \/ JoinTimeout
    \/ \E t \in timers : ConnectTimerFires(t)
    \/ \E t \in timers : RetryTimerFires(t)

ClientNext ==
    \/ JoinRoom
    \/ PeerOpened
    \/ PeerDisconnected
    \/ PeerErrored
    \/ \E i \in 1..Len(clientConns) : ConnOpened(i)
    \/ \E i \in 1..Len(clientConns) : ConnErrored(i)
    \/ \E i \in 1..Len(clientConns) : ConnClosed(i)
    \/ \E i \in 1..Len(clientConns) : JoinedReceived(i)
    \/ TimerFires

ClientSpec == Init /\ [][ClientNext]_vars

\* Every scheduled callback is run by the browser once its delay has passed.
ClientFairSpec == ClientSpec /\ WF_vars(TimerFires)

\* ===================================================================
\* Properties
\* ===================================================================

\* Records the host holds for a name, in the live registry or preserved.
RecordsOf(n) ==
    {players[c] : c \in {d \in DOMAIN players : players[d].name = n}}
        \cup (IF n \in DOMAIN disconnectedPlayers THEN {disconnectedPlayers[n]} ELSE {})

\* The highest score the host holds for a name.
BestScore(n) ==
    LET scores == {r.score : r \in RecordsOf(n)}
    IN  CHOOSE s \in scores : \A t \in scores : t <= s

\* C1: the cumulative score recorded for a player identity never decreases
\* from one host state to the next, whatever event is processed.
C1_ScoreNeverDecreases ==
    [][\A n \in Names :
          (RecordsOf(n) # {} /\ RecordsOf(n)' # {}) => BestScore(n)' >= BestScore(n)]_vars

Occurrences(seq, x) == Cardinality({i \in 1..Len(seq) : seq[i] = x})

OneBucketPerName ==
    \A n \in Names :
        /\ Cardinality({k \in AnswerInputs : Includes(votes[k], n)}) <= 1
        /\ \A k \in AnswerInputs : Occurrences(votes[k], n) <= 1

\* C2: every name is in at most one bucket of votes, at most once, in every
\* reachable state, and an accepted answer leaves the sender's name in the
\* chosen bucket only.
C2_OneBucketPerName ==
    [][/\ OneBucketPerName'
       /\ \A c \in connections, o \in AnswerInputs :
             (Answer(c, o) /\ ~AnswerDropped(c)) =>
                 \A k \in AnswerInputs \ {o} : ~Includes(votes'[k], players[c].name)]_vars

\* Connections whose score grows by the time score plus the speed bonus in
\* this step.
BonusReceivers ==
    {c \in DOMAIN players :
        /\ c \in DOMAIN players'
        /\ players'[c].score - players[c].score
               = TimeScore(players[c].answerTime) + SPEED_BONUS}

\* C3: hostReveal adds the speed bonus to at most one player, and that
\* player's connection is at position 0 of answerOrder.
C3_OneSpeedBonus ==
    [][HostReveal =>
          /\ Cardinality(BonusReceivers) <= 1
          /\ \A c \in BonusReceivers : Len(answerOrder) > 0 /\ answerOrder[1] = c]_vars

\* Two players were scored as correct on the same question and exactly one
\* of them got the bonus on top.
C3_Witness ==
    /\ btnReveal = "showRevealScreen"
    /\ \E c, d \in DOMAIN lastEarned :
          /\ c # d
          /\ lastEarned[d] > 0
          /\ lastEarned[c] = lastEarned[d] + SPEED_BONUS
          /\ answerOrder = <<c, d>>

\* Names of the correct bucket that belong to a live player, in the order the
\* votes now held arrived.
LiveCorrectVoters ==
    SelectSeq(votes[CurrentQuestion.correct],
              LAMBDA n : \E c \in DOMAIN players : players[c].name = n)

\* C4: when some registered player holds a vote for the correct option at
\* hostReveal, the registered player whose current correct vote arrived first
\* is credited the time score plus the speed bonus.
C4_FirstCorrectGetsBonus ==
    [][(HostReveal /\ Len(LiveCorrectVoters) > 0) =>
          \E c \in DOMAIN players :
              /\ players[c].name = LiveCorrectVoters[1]
              /\ players'[c].score - players[c].score
                     = TimeScore(players[c].answerTime) + SPEED_BONUS]_vars

\* A join on a connection that holds no record, for a name that has a
\* preserved record.
Rejoin(c, name) ==
    Join(c, name) /\ c \notin DOMAIN players /\ name \in DOMAIN disconnectedPlayers

SameStanding(p, q) ==
    /\ p.score = q.score
    /\ p.correct_count = q.correct_count
    /\ p.answers = q.answers

QuestionClosed == quizStarted /\ ~timerRunning

\* C6: an answer message processed after the question was closed, by timer
\* expiry or by hostReveal, and before the next question is sent changes
\* neither votes, answerOrder nor any player record.
C6_LateAnswerIsNoOp ==
    [][QuestionClosed =>
          \A c \in connections, o \in AnswerInputs :
              Answer(c, o) =>
                  UNCHANGED << votes, answerOrder, players, disconnectedPlayers,
                               lastEarned, currentQ, screen >>]_vars

\* The timer has expired on a question a registered player has not answered,
\* and the player can still send an answer.
C6_Witness ==
    /\ QuestionClosed
    /\ screen = "screenHostQ"
    /\ btnReveal = "hostReveal"
    /\ events < MaxEvents
    /\ \E c \in connections : c \in DOMAIN players /\ ~players[c].answered

\* Buckets of votes holding a name.
BucketsOf(n) == {k \in AnswerInputs : Includes(votes[k], n)}

ValidOptions == {i - 1 : i \in DOMAIN CurrentQuestion.options}

Last(seq) == seq[Len(seq)]

\* C8: hostReveal earns 0 points for a registered player whose name is in no
\* bucket, or in the bucket of one option that is not the correct one; the
\* player's score and correct count stay, and one record is appended to the
\* history with right = false, picked being the unanswered marker without a
\* vote and the text of the chosen option otherwise.
C8_WrongOrAbsentEarnsNothing ==
    [][HostReveal =>
          \A c \in DOMAIN players :
              LET n == players[c].name
                  absent == BucketsOf(n) = {}
                  wrong == \E k \in ValidOptions \ {CurrentQuestion.correct} :
                               BucketsOf(n) = {k}
              IN  (absent \/ wrong) =>
                      /\ lastEarned'[c] = 0
                      /\ players'[c].score = players[c].score
                      /\ players'[c].correct_count = players[c].correct_count
                      /\ Len(players'[c].answers) = Len(players[c].answers) + 1
                      /\ SubSeq(players'[c].answers, 1, Len(players[c].answers))
                             = players[c].answers
                      /\ Last(players'[c].answers).right = FALSE
                      /\ Last(players'[c].answers).question = CurrentQuestion.question
                      /\ Last(players'[c].answers).picked =
                             IF absent THEN Unanswered
                             ELSE CurrentQuestion.options
                                      [(CHOOSE k \in BucketsOf(n) : TRUE) + 1]]_vars

\* A reveal has scored one player without a vote and one with a wrong vote.
C8_Witness ==
    /\ btnReveal = "showRevealScreen"
    /\ \E c, d \in DOMAIN lastEarned \cap DOMAIN players :
          /\ lastEarned[c] = 0 /\ lastEarned[d] = 0
          /\ BucketsOf(players[c].name) = {}
          /\ players[c].answers # << >>
          /\ Last(players[c].answers).picked = Unanswered
          /\ BucketsOf(players[d].name) = {1 - CurrentQuestion.correct}
          /\ players[d].answers # << >>
          /\ Last(players[d].answers).picked
                 = CurrentQuestion.options[(1 - CurrentQuestion.correct) + 1]
          /\ ~Last(players[d].answers).right

\* round(500 + 500 * (1 - min(e / budget, 1))) for an integer e >= 0
ClaimedBase(e) ==
    LET m == IF e < Budget THEN e ELSE Budget
    IN  (2 * (1000 * Budget - 500 * m) + Budget) \div (2 * Budget)

\* The base points hostReveal computed for the player on connection c.
BasePoints(c) ==
    lastEarned[c] - (IF IsFirstCorrect(c) THEN SPEED_BONUS ELSE 0)

Revealed == btnReveal = "showRevealScreen" /\ screen = "screenHostQ"

\* C7: for a player whose vote at reveal is the correct option and whose
\* answer was registered e milliseconds after the question was sent, the base
\* points are round(500 + 500 * (1 - min(e / 30000, 1))) for every integer
\* e >= 0: 1000 for e = 0, 967 for e = 2000, 517 for e = 29000, 500 from
\* 30000 on, and never below 500.
C7_BasePointsFormula ==
    Revealed =>
        \A c \in DOMAIN players \cap DOMAIN lastEarned :
            LET e == players[c].answerTime
            IN  (players[c].answered /\ WasCorrect(players[c])) =>
                    /\ BasePoints(c) = ClaimedBase(e)
                    /\ BasePoints(c) >= 500
                    /\ e = 0 => BasePoints(c) = 1000
                    /\ e = 2000 => BasePoints(c) = 967
                    /\ e = 29000 => BasePoints(c) = 517
                    /\ e >= Budget => BasePoints(c) = 500

\* The base points follow the formula for every response time of at least
\* one millisecond.
BasePointsFormulaFromOne ==
    Revealed =>
        \A c \in DOMAIN players \cap DOMAIN lastEarned :
            LET e == players[c].answerTime
            IN  (players[c].answered /\ WasCorrect(players[c]) /\ e >= 1) =>
                    /\ BasePoints(c) = ClaimedBase(e)
                    /\ BasePoints(c) >= 500
                    /\ e = 2000 => BasePoints(c) = 967
                    /\ e = 29000 => BasePoints(c) = 517
                    /\ e >= Budget => BasePoints(c) = 500

\* The phase of the session the host state is in.
Phase ==
    IF screen = "screenHostLobby" THEN "Lobby"
    ELSE IF screen = "screenScoreboard" THEN "Final"
    ELSE IF screen = "screenHalftime" THEN "Halftime"
    ELSE IF screen = "screenHostReveal" \/ btnReveal = "showRevealScreen" THEN "Reveal"
    ELSE IF answersLocked THEN "Locked"
    ELSE "Question"

PhaseEdges ==
    { <<"Lobby", "Question">>, <<"Question", "Locked">>, <<"Question", "Reveal">>,
      <<"Locked", "Reveal">>, <<"Reveal", "Question">>, <<"Reveal", "Halftime">>,
      <<"Halftime", "Question">>, <<"Reveal", "Final">> }

\* A step keeps the phase or follows an edge, and leaves Final unchanged,
\* the question cursor with it.
PhaseStep ==
    /\ Phase' = Phase \/ <<Phase, Phase'>> \in PhaseEdges
    /\ Phase = "Final" => (Phase' = "Final" /\ currentQ' = currentQ)

\* No score held for a name changes.
ScoresKept ==
    \A n \in Names : RecordsOf(n) # {} =>
        /\ RecordsOf(n)' # {}
        /\ BestScore(n)' = BestScore(n)

\* C9: the phase starts at Lobby and only moves along Lobby->Question,
\* Question->Locked, Question/Locked->Reveal, Reveal->Question,
\* Reveal->Halftime, Halftime->Question and Reveal->Final; once Final is
\* reached no event changes the phase, the question cursor or any score.
C9_PhaseOrderAndFinal ==
    /\ Phase = "Lobby"
    /\ [][PhaseStep /\ (Phase = "Final" => ScoresKept)]_vars

\* The phase part on its own: initial Lobby, the listed edges only, Final
\* terminal for the phase and the cursor.
PhaseOrder == Phase = "Lobby" /\ [][PhaseStep]_vars

\* C10: in the scoreboard sent when the session reaches Final, every listed
\* player's history has one record per question of the session, record i
\* being the one of question i.
C10_FullHistories ==
    screen = "screenScoreboard" =>
        \A i \in DOMAIN scoreboard :
            /\ Len(scoreboard[i].answers) = NumQuestions
            /\ \A k \in 1..NumQuestions :
                   scoreboard[i].answers[k].question = quiz[k].question

RECURSIVE SumLen(_)
\* Number of entries over the buckets with keys in K.
SumLen(K) ==
    IF K = {} THEN 0
    ELSE LET k == CHOOSE x \in K : TRUE
         IN  Len(votes[k]) + SumLen(K \ {k})

\* Registered players who have voted on the open question.
LiveVoters == {c \in DOMAIN players : players[c].answered}

\* C11: while a question is open, the number of entries over all buckets of
\* votes equals the number of players who have voted on the question and are
\* still in the live registry.
C11_TallyMatchesVoters ==
    Phase = "Question" => SumLen(AnswerInputs) = Cardinality(LiveVoters)

\* C12: a join processed past Lobby while a current question exists is
\* answered on the same connection with joined and then question carrying
\* the current question index; a join processed in Lobby with joined only.
C12_JoinReplies ==
    [][\A c \in connections, n \in Names :
          Join(c, n) =>
              /\ (Phase = "Lobby") => sent' = <<JoinedMsg(c, n)>>
              /\ (Phase # "Lobby" /\ currentQ < NumQuestions) =>
                     sent' = <<JoinedMsg(c, n), QuestionMsg(c, currentQ)>>]_vars

\* A join was processed during the second question and answered with joined
\* and the question of index 1.
C12_Witness ==
    /\ Phase = "Question"
    /\ currentQ = 1
    /\ Len(sent) = 2
    /\ sent[1].type = "joined"
    /\ sent[2].type = "question" /\ sent[2].index = 1 /\ sent[2].to = sent[1].to
    /\ sent[1].to \in DOMAIN players

\* A step of one of the callbacks a player causes.
PlayerEvent ==
    \/ ConnOpen
    \/ \E c \in connections : ConnClose(c)
    \/ \E c \in connections, n \in Names : Join(c, n)
    \/ \E c \in connections, o \in AnswerInputs : Answer(c, o)

\* A step of a host button or of the host's timer expiry.
HostControl ==
    HostStartQuiz \/ HostReveal \/ HostNextQuestion \/ HalftimeContinue \/ TimerExpire

ProgressKept ==
    Phase' = Phase /\ currentQ' = currentQ /\ halftimeShown' = halftimeShown

\* C13: no join, answer, connection open or connection close changes the
\* phase, currentQ or halftimeShown; a step that changes one of them is a
\* step of hostStartQuiz, hostReveal, hostNextQuestion, halftimeContinue or
\* the timer expiry.
C13_OnlyHostAdvances ==
    [][/\ PlayerEvent => ProgressKept
       /\ ~ProgressKept => HostControl]_vars

\* Player events were processed during the halftime checkpoint, the last of
\* them a join, and the host is still at the checkpoint.
C13_Witness ==
    /\ Phase = "Halftime"
    /\ halftimeShown
    /\ Len(sent) = 2 /\ sent[1].type = "joined"
    /\ events >= 3

\* Every position of seq holds a different value.
NoRepeats(seq) == \A i, j \in DOMAIN seq : i # j => seq[i] # seq[j]

\* Registered connections whose player's vote is the correct option.
CorrectVoters ==
    {c \in DOMAIN players :
        players[c].answered /\ BucketsOf(players[c].name) = {CurrentQuestion.correct}}

\* C16: while a question is open, answerOrder holds exactly the connections
\* of the registered players whose current vote is the correct option, each
\* once, in the order in which those votes arrived.
C16_AnswerOrderExact ==
    Phase = "Question" =>
        /\ NoRepeats(answerOrder)
        /\ {answerOrder[i] : i \in DOMAIN answerOrder} = CorrectVoters
        /\ [i \in DOMAIN answerOrder |-> players[answerOrder[i]].name]
               = votes[CurrentQuestion.correct]

\* C17: an answer message processed while the phase is not Question (Lobby,
\* Halftime and Final among them) leaves votes, answerOrder and every
\* player's answered flag and answerTime unchanged.
C17_AnswerOnlyInQuestion ==
    [][Phase # "Question" =>
          \A c \in connections, o \in AnswerInputs :
              Answer(c, o) => UNCHANGED << votes, answerOrder, players >>]_vars

\* C18: an answer message whose option index is no valid option of the
\* current question is dropped: no bucket of votes changes and the sender's
\* answered flag and answerTime stay as they are.
C18_InvalidOptionDropped ==
    [][currentQ < NumQuestions =>
          \A c \in connections, o \in AnswerInputs \ ValidOptions :
              Answer(c, o) => UNCHANGED << votes, players >>]_vars

\* Connections that were open once and are closed now.
Closed == (1..nextConn) \ connections

\* C19: the close of a registered player's connection removes the connection
\* from connections and the player from players, stores the same record in
\* disconnectedPlayers under the player's name, and leaves every other
\* player's record, the phase and the question cursor unchanged; no message
\* is sent to a closed connection afterwards.
C19_CloseMovesRecord ==
    [][/\ \A c \in connections :
             (ConnClose(c) /\ c \in DOMAIN players) =>
                 /\ c \notin connections'
                 /\ DOMAIN players' = DOMAIN players \ {c}
                 /\ \A d \in DOMAIN players' : players'[d] = players[d]
                 /\ players[c].name \in DOMAIN disconnectedPlayers'
                 /\ disconnectedPlayers'[players[c].name] = players[c]
                 /\ \A n \in DOMAIN disconnectedPlayers \ {players[c].name} :
                        /\ n \in DOMAIN disconnectedPlayers'
                        /\ disconnectedPlayers'[n] = disconnectedPlayers[n]
                 /\ Phase' = Phase
                 /\ currentQ' = currentQ
       /\ Closed \subseteq Closed'
       /\ \A i \in DOMAIN sent' : sent'[i].to \notin Closed']_vars

\* A registered player's connection has closed, the record is preserved, and
\* the host has since revealed a question to the connections still open.
C19_Witness ==
    /\ Closed # {}
    /\ disconnectedPlayers # EmptyMap
    /\ connections # {}
    /\ Len(sent) = Cardinality(connections)
    /\ \A i \in DOMAIN sent : sent[i].type = "reveal"
    /\ \E n \in DOMAIN disconnectedPlayers :
          Len(disconnectedPlayers[n].answers) = currentQ

\* floor(N / 2) for the N questions of the quiz
HalfOfQuiz == Len(quiz) \div 2

\* C20: the halftime checkpoint is entered only from Reveal of the question
\* of index floor(N/2) - 1 and only if it was not entered before, it is left
\* only by sending the question of index floor(N/2), and when Final is
\* reached with N >= 2 it has been entered (once).
C20_HalftimeOnce ==
    /\ [][/\ (Phase # "Halftime" /\ Phase' = "Halftime") =>
                /\ Phase = "Reveal"
                /\ currentQ = HalfOfQuiz - 1
                /\ ~halftimeShown
          /\ (~halftimeShown /\ halftimeShown') =>
                (Phase # "Halftime" /\ Phase' = "Halftime")
          /\ halftimeShown => halftimeShown'
          /\ (Phase = "Halftime" /\ Phase' # "Halftime") =>
                /\ Phase' = "Question"
                /\ currentQ' = HalfOfQuiz
                /\ \A i \in DOMAIN sent' :
                       sent'[i].type = "question" /\ sent'[i].index = HalfOfQuiz
          /\ (Phase # "Question" /\ Phase' = "Question" /\ currentQ' = HalfOfQuiz
                  /\ Len(quiz) >= 2) =>
                Phase = "Halftime"]_vars
    /\ []((Phase = "Final" /\ Len(quiz) >= 2) => halftimeShown)

\* A quiz of five questions has reached Final after its checkpoint.
C20_Witness ==
    /\ Len(quiz) = 5
    /\ Phase = "Final"
    /\ halftimeShown

\* ------------------------------------------- a host who plays to the end
\* Quizzes of 1..MaxQuestions questions, a few player events at any time, and
\* a host who presses every button that is offered.
FinishNext ==
    \/ events < MaxFinishEvents /\ ConnOpen
    \/ events < MaxFinishEvents /\ \E c \in connections : ConnClose(c)
    \/ events < MaxFinishEvents /\ \E c \in connections, name \in JoinNames : Join(c, name)
    \/ events < MaxFinishEvents
          /\ \E c \in connections, optIdx \in AnswerInputs : Answer(c, optIdx)
    \/ Tick
    \/ TimerExpire
    \/ HostStartQuiz
    \/ HostReveal
    \/ ShowRevealScreen
    \/ HostNextQuestion
    \/ HalftimeContinue

HostKeepsGoing ==
    /\ WF_vars(HostStartQuiz)
    /\ WF_vars(HostReveal)
    /\ WF_vars(ShowRevealScreen)
    /\ WF_vars(HostNextQuestion)
    /\ WF_vars(HalftimeContinue)

FinishSpec == HalftimeInit /\ [][FinishNext]_vars /\ HostKeepsGoing

\* ------------------------------------------------------- two voters
\* The lobby once Ann, on connection 1, and Bob, on connection 2, have joined;
\* events counts the answer messages after that.
VoteInit ==
    /\ quiz = QUESTIONS
    /\ nextConn = 2
    /\ connections = {1, 2}
    /\ players = Put(Put(EmptyMap, 1, NewPlayer("Ann")), 2, NewPlayer("Bob"))
    /\ disconnectedPlayers = EmptyMap
    /\ currentQ = 0
    /\ votes = EmptyVotes
    /\ answerOrder = << >>
    /\ quizStarted = FALSE
    /\ answersLocked = FALSE
    /\ lastEarned = EmptyMap
    /\ halftimeShown = FALSE
    /\ elapsed = Budget
    /\ timerRunning = FALSE
    /\ screen = "screenHostLobby"
    /\ btnReveal = "hostReveal"
    /\ scoreboard = << >>
    /\ sent = << >>
    /\ events = 0
    /\ PlayerPageInit

\* The two stay connected: answers, the timer and the host's buttons.
VoteNext ==
    \/ \E c \in connections, optIdx \in AnswerInputs : Answer(c, optIdx)
    \/ Tick
    \/ TimerExpire
    \/ HostStartQuiz
    \/ HostReveal
    \/ ShowRevealScreen
    \/ HostNextQuestion
    \/ HalftimeContinue

VoteSpec == VoteInit /\ [][VoteNext]_vars

\* ------------------------------------------- one player page and the host
\* The name typed on the page.
MyName == "Ann"

\* Every host variable but sent.
hostState == << quiz, nextConn, connections, players, disconnectedPlayers, currentQ,
                votes, answerOrder, quizStarted, answersLocked, lastEarned,
                halftimeShown, elapsed, timerRunning, screen, btnReveal,
                scoreboard, events >>

\* The variables of the join screen, which the page no longer touches.
joinVars == << peerState, clientConns, hostConn, reconnects, timers, joinError,
               clientEvents >>

\* What the host's last callback handed to conn.send for the page's channel
\* and the page has not handled yet.
Inbox == IF linked THEN SelectSeq(sent, LAMBDA m : m.to = myConn) ELSE << >>

\* The page has handled every message of the host's last callback.
Delivered == Inbox = << >>

\* hostConn 'open' on the page, for the connection the host accepted last and
\* has not written to yet: the page sends its join message.
ChannelOpens ==
    /\ ~linked
    /\ nextConn > myConn
    /\ nextConn \in connections
    /\ \A i \in DOMAIN sent : sent[i].to # nextConn
    /\ linked' = TRUE
    /\ myConn' = nextConn
    /\ outbox' = << [type |-> "join", name |-> MyName] >>
    /\ UNCHANGED << hostVars, joinVars, playerScreen, myAnswer, playerLocked,
                    playerTimerStart, myCorrectCount, presses >>

\* hostConn 'close' on the page; what was in flight is lost.
ChannelCloses ==
    /\ linked
    /\ linked' = FALSE
    /\ outbox' = << >>
    /\ UNCHANGED << hostVars, joinVars, playerScreen, myConn, myAnswer,
                    playerLocked, playerTimerStart, myCorrectCount, presses >>

\* conn 'data' on the host for the oldest message of the page.
HostReceives ==
    /\ Delivered
    /\ outbox # << >>
    /\ LET m == Head(outbox)
       IN  IF m.type = "join"
           THEN JoinHandler(myConn, m.name)
           ELSE AnswerHandler(myConn, m.option)
    /\ outbox' = Tail(outbox)
    /\ UNCHANGED << joinVars, playerScreen, linked, myConn, myAnswer,
                    playerLocked, playerTimerStart, myCorrectCount, presses >>

\* handlePlayerMessage for the oldest message of the host.
PageReceives ==
    /\ ~Delivered
    /\ sent' = RemoveFirst(sent, Head(Inbox))
    /\ LET m == Head(Inbox)
       IN  CASE m.type = "joined" ->
                   /\ playerScreen' = "screenPlayerWait"
                   /\ UNCHANGED << myAnswer, playerLocked, playerTimerStart,
                                   myCorrectCount >>
             [] m.type = "question" ->
                   /\ myAnswer' = -1
                   /\ playerLocked' = FALSE
                   /\ playerScreen' = "screenPlayerQ"
                   /\ playerTimerStart' = elapsed
                   /\ UNCHANGED myCorrectCount
             [] m.type = "reveal" ->
                   /\ playerTimerStart' = NullTime
                   /\ myCorrectCount' = IF myAnswer = m.correct
                                        THEN myCorrectCount + 1 ELSE myCorrectCount
                   /\ playerScreen' = "screenPlayerFeedback"
                   /\ UNCHANGED << myAnswer, playerLocked >>
             [] m.type = "halftime" ->
                   /\ playerScreen' = "screenPlayerHalftime"
                   /\ UNCHANGED << myAnswer, playerLocked, playerTimerStart,
                                   myCorrectCount >>
             [] m.type = "scoreboard" ->
                   /\ playerScreen' = "screenScoreboard"
                   /\ UNCHANGED << myAnswer, playerLocked, playerTimerStart,
                                   myCorrectCount >>
    /\ UNCHANGED << hostState, joinVars, linked, myConn, outbox, presses >>

\* The page's countdown reaching zero, TIMER_DURATION seconds after the page
\* showed the question.
PlayerTimerExpires ==
    /\ playerTimerStart # NullTime
    /\ elapsed - playerTimerStart >= Budget
    /\ playerLocked' = TRUE
    /\ playerTimerStart' = NullTime
    /\ UNCHANGED << hostVars, joinVars, playerScreen, linked, myConn, outbox,
                    myAnswer, myCorrectCount, presses >>

\* playerAnswer(idx): the player presses an option button.
PlayerAnswer(idx) ==
    /\ playerScreen = "screenPlayerQ"
    /\ presses < MaxPresses
    /\ presses' = presses + 1
    /\ IF playerLocked
       THEN UNCHANGED << myAnswer, outbox >>
       ELSE /\ myAnswer' = idx
            /\ outbox' = IF linked
                         THEN Append(outbox, [type |-> "answer", option |-> idx])
                         ELSE outbox
    /\ UNCHANGED << hostVars, joinVars, playerScreen, linked, myConn,
                    playerLocked, playerTimerStart, myCorrectCount >>

\* One player page and the host page, with the channel between them.
\* The host page of a quiz of SessionQuestions questions and a page that has
\* not connected yet.
SessionInit == HalftimeInit /\ NumQuestions = SessionQuestions

\* The page asks for a channel when it has none, MaxChannels times at most.
PageConnects == ~linked /\ nextConn = myConn /\ nextConn < MaxChannels /\ ConnOpen

SessionNext ==
    \/ Delivered /\ PageConnects
    \/ Delivered /\ \E c \in connections : ConnClose(c)
    \/ Delivered /\ Tick
    \/ Delivered /\ TimerExpire
    \/ Delivered /\ HostStartQuiz
    \/ Delivered /\ HostReveal
    \/ Delivered /\ ShowRevealScreen
    \/ Delivered /\ HostNextQuestion
    \/ Delivered /\ HalftimeContinue
    \/ ChannelOpens
    \/ ChannelCloses
    \/ HostReceives
    \/ PageReceives
    \/ PlayerTimerExpires
    \/ \E idx \in 0..1 : PlayerAnswer(idx)

SessionSpec == SessionInit /\ [][SessionNext]_vars

\* ------------------------------------------------------------------- C14
LoopTimers == {t \in timers : t.kind # "joinTimeout"}
ConnsOf(loop) == {i \in 1..Len(clientConns) : clientConns[i].origin = loop}

\* C14: after a drop the player page makes at most 5 reconnect attempts, each of
\* them but the first from a callback scheduled 2 seconds ahead, each opening at
\* most one connection to the host; the loop ends, with or without success.
C14_ReconnectBounded ==
    /\ [](\A loop \in 1..Len(reconnects) :
            /\ reconnects[loop] <= 5
            /\ Cardinality(ConnsOf(loop)) <= reconnects[loop])
    /\ [](\A t \in LoopTimers : t.delay = 2000)
    /\ [][\A loop \in 1..Len(reconnects) :
            reconnects'[loop] # reconnects[loop] =>
                /\ reconnects'[loop] = reconnects[loop] + 1
                /\ \E t \in LoopTimers : t.loop = loop /\ t \notin timers']_vars
    /\ <>[](LoopTimers = {})

\* A loop that used all its attempts and gave up without an open channel.
C14_Witness ==
    /\ \E loop \in 1..Len(reconnects) : reconnects[loop] = 5
    /\ LoopTimers = {}
    /\ ~HostConnOpen

\* ------------------------------------------------------------------- C15
FailureShown == joinError \in {TextTimeout, TextConnFailed, TextPeerError}
NeverOpened == \A i \in 1..Len(clientConns) : ~clientConns[i].onData
Joining ==
    \/ playerScreen = "screenPlayerWait"
    \/ \E i \in 1..Len(clientConns) : clientConns[i].joinSent

\* C15: when joinRoom's 10-second callback runs and the channel never opened,
\* the page shows a failure, and from the timeout display on no transport event
\* takes the failure away or lets the page join.
C15_TimeoutIsTerminal ==
    /\ [][(JoinTimer \in timers /\ JoinTimer \notin timers' /\ NeverOpened)
              => FailureShown']_vars
    /\ [][joinError = TextTimeout => (FailureShown' /\ ~Joining')]_vars

\* ------------------------------------------------------------------- C21
RightCount(answers) == Cardinality({i \in DOMAIN answers : answers[i].right})
AllRecords == UNION {RecordsOf(n) : n \in Names}
RevealStep == btnReveal = "hostReveal" /\ btnReveal' = "showRevealScreen"

\* C21: hostReveal appends exactly one history record to every registered
\* player and raises correct_count by one exactly when that record has
\* right = true; every record the host holds has correct_count equal to the
\* number of right records of its history, and a positive score only with a
\* positive correct_count.
C21_CorrectCountMatchesHistory ==
    /\ [][RevealStep =>
            /\ DOMAIN players' = DOMAIN players
            /\ \A c \in DOMAIN players :
                  /\ Len(players'[c].answers) = Len(players[c].answers) + 1
                  /\ SubSeq(players'[c].answers, 1, Len(players[c].answers))
                        = players[c].answers
                  /\ players'[c].correct_count = players[c].correct_count
                        + (IF Last(players'[c].answers).right THEN 1 ELSE 0)]_vars
    /\ [](\A r \in AllRecords :
            /\ r.correct_count = RightCount(r.answers)
            /\ r.score > 0 => r.correct_count > 0)

\* After two reveals a record holds one right and one wrong answer.
C21_Witness ==
    \E r \in AllRecords :
        /\ Len(r.answers) = 2
        /\ r.correct_count = 1
        /\ r.score > 0

\* ------------------------------------------------------------------- C22
\* The player, registered on an open channel, presses an option button.
RegisteredPress ==
    /\ presses' = presses + 1
    /\ linked
    /\ myConn \in connections
    /\ myConn \in DOMAIN players

\* C22: while the host's phase is Question, a press of an option button by a
\* connected, registered player puts the answer for that option on the channel
\* to the host, whatever the page's own countdown shows.
C22_OnlyHostLockCounts ==
    [][(Phase = "Question" /\ RegisteredPress) =>
          \E idx \in 0..1 :
              outbox' = Append(outbox, [type |-> "answer", option |-> idx])]_vars

\* ------------------------------------------------------------------- C23
\* hostSendQuestion runs: the host leaves another screen for the question.
QuestionReset == screen # "screenHostQ" /\ screen' = "screenHostQ"

\* The vote of the player on connection c moves to another option.
VoteMoves(c) ==
    /\ c \in DOMAIN players
    /\ c \in DOMAIN players'
    /\ PlayerVote(players[c].name)' # PlayerVote(players[c].name)

\* Every registered player has a name of its own.
DistinctNames ==
    \A c, d \in DOMAIN players : c # d => players[c].name # players[d].name

\* C23: while a question is open, the connection at position 0 of answerOrder
\* stays there until the question is reset, unless its player's vote moves to
\* another option; sending the same correct option again does not put it
\* behind later correct voters.  Stated for players with names of their own,
\* each in at most one bucket.
C23_FirstCorrectStaysFirst ==
    [][\A c \in 1..nextConn :
          (/\ Phase = "Question"
           /\ DistinctNames
           /\ OneBucketPerName
           /\ c \in DOMAIN players
           /\ PlayerVote(players[c].name) = CurrentQuestion.correct
           /\ Len(answerOrder) > 0
           /\ answerOrder[1] = c
           /\ ~QuestionReset
           /\ ~VoteMoves(c))
          => (Len(answerOrder') > 0 /\ answerOrder'[1] = c)]_vars

\* ------------------------------------------------------------------- C24
\* C24: connections that are registered at the same time under one display
\* name share one player record: whatever one of them reads (score,
\* correct_count, history, answered flag and time) the other reads too.
C24_SameNameSharesRecord ==
    \A c, d \in DOMAIN players :
        players[c].name = players[d].name => players[c] = players[d]

\* ------------------------------------------------------------------- C25
\* Connections registered under the name n.
Holders(n) == {c \in DOMAIN players : players[c].name = n}

\* C25: when the close of a player's old connection c is handled after the
\* join of the same name on a newer connection d, the host is left with one
\* record for the name: the one of d in players, with the score, correct count
\* and history the player had on c, and none in disconnectedPlayers.
C25_JoinBeforeClose ==
    [][\A c, d \in connections :
          (/\ c < d
           /\ c \in DOMAIN players
           /\ Holders(players[c].name) = {c, d}
           /\ players[c].name \notin DOMAIN disconnectedPlayers
           /\ connections' = connections \ {c})
          => LET n == players[c].name
             IN  /\ {x \in DOMAIN players' : players'[x].name = n} = {d}
                 /\ SameStanding(players'[d], players[c])
                 /\ n \notin DOMAIN disconnectedPlayers']_vars

\* ------------------------------------------------------------------- C26
\* C26: a join message carrying the name a connection is already registered
\* under leaves that connection's score, correct_count, answered flag and
\* history as they were.
C26_JoinIdempotent ==
    [][\A c \in DOMAIN players :
          Join(c, players[c].name) =>
              /\ SameStanding(players'[c], players[c])
              /\ players'[c].answered = players[c].answered]_vars

\* ------------------------------------------------------------------- C27
\* The host shows the final scoreboard.
FinalStep == screen # "screenScoreboard" /\ screen' = "screenScoreboard"

\* C27: when the session reaches Final, every record the host holds, in
\* players or in disconnectedPlayers, is listed in the scoreboard under its
\* name with its score.
C27_FinalListsEveryone ==
    [][FinalStep =>
          \A r \in AllRecords' :
              \E i \in DOMAIN scoreboard' :
                  /\ scoreboard'[i].name = r.name
                  /\ scoreboard'[i].score = r.score]_vars

\* ------------------------------------------------------------------- C28
\* C28: a registered player's answered flag is set exactly when the player's
\* name is in some bucket of votes.
C28_AnsweredIffVoted ==
    \A c \in DOMAIN players :
        players[c].answered <=> BucketsOf(players[c].name) # {}

\* ------------------------------------------------------------------- C29
\* The page of a registered player handles a reveal message.
RevealHandled ==
    /\ ~Delivered
    /\ Head(Inbox).type = "reveal"
    /\ myConn \in DOMAIN players
    /\ PageReceives

\* C29: whenever the page of a registered player handles a reveal message, its own verdict,
\* myAnswer = correct, which also decides whether myCorrectCount grows, is
\* true exactly when the earned value of the message is greater than 0.
C29_VerdictsAgree ==
    [][RevealHandled =>
          /\ (myAnswer = Head(Inbox).correct) <=> (Head(Inbox).earned > 0)
          /\ (myCorrectCount' = myCorrectCount + 1) <=> (Head(Inbox).earned > 0)]_vars

\* ------------------------------------------------------------------- C30
\* Questions broadcast so far, and reveals made so far, read off the cursor.
Asked ==
    IF screen = "screenHostLobby" THEN 0
    ELSE IF screen \in {"screenHalftime", "screenScoreboard"} THEN currentQ
    ELSE currentQ + 1
Reveals ==
    IF screen = "screenHostLobby" THEN 0
    ELSE IF screen \in {"screenHalftime", "screenScoreboard"} THEN currentQ
    ELSE IF screen = "screenHostReveal" \/ btnReveal = "showRevealScreen"
    THEN currentQ + 1
    ELSE currentQ

\* The step broadcasts the question with index q to every open connection.
Broadcasts(q) ==
    /\ sent' # << >> \/ connections = {}
    /\ Len(sent') = Cardinality(connections)
    /\ \A i \in DOMAIN sent' : sent'[i].type = "question" /\ sent'[i].index = q

\* C30: with a host who keeps pressing the offered button, a quiz of N >= 1
\* questions reaches the final scoreboard whatever the players do; the k-th
\* question broadcast has index k - 1, every hostReveal is the next reveal, no
\* other step broadcasts a question or reveals, and at the final scoreboard N
\* questions were broadcast and N reveals made.
C30_QuizFinishes ==
    /\ [][/\ QuestionReset <=> Asked' = Asked + 1
          /\ ~QuestionReset => Asked' = Asked
          /\ QuestionReset => (currentQ' = Asked /\ Broadcasts(Asked))
          /\ RevealStep <=> Reveals' = Reveals + 1
          /\ ~RevealStep => Reveals' = Reveals]_vars
    /\ [](screen = "screenScoreboard" =>
            Asked = NumQuestions /\ Reveals = NumQuestions)
    /\ <>(screen = "screenScoreboard")

\* The final scoreboard of a quiz with a halftime, listing a player.
C30_Witness ==
    /\ screen = "screenScoreboard"
    /\ halftimeShown
    /\ currentQ = NumQuestions
    /\ NumQuestions >= 3
    /\ events > 0
    /\ Len(scoreboard) > 0

====
